---- MODULE Spec2Model ----
(***************************************************************************)
(* powerhose/client.py: the request/reply Client with its timeout-overflow *)
(* policy and the self-healing Pool of Clients.                            *)
(*                                                                         *)
(* Threads call Pool.execute / Pool.ping on one Pool and Client.execute /  *)
(* Client.ping on one bare Client (client id Bare) that they share.        *)
(* Time is counted in ticks.  Every Client is constructed with a base      *)
(* timeout of 1 tick, a max-overflow timeout of 2 ticks and a tolerance of *)
(* 1 overflow (the default tolerance).                                     *)
(***************************************************************************)
EXTENDS Integers, Sequences, FiniteSets, TLC

\* ---- bounds of the model ------------------------------------------------
NumThreads == 2
Size == 2
MaxReplaced == 1
MaxElapsed == 3
MaxCounter == 3

\* ---- the constructor arguments of every Client (client.py:52-55), in ticks ---
timeout == 1
timeout_max_overflow == 2
timeout_overflows == 1

None == -1
Bare == 0
\* the concurrent callers
Threads == 1..NumThreads
\* a Pool of `size` Clients, size in 1..Size, has the Clients 1..size at first,
\* then the replacements
MaxClients == Size + MaxReplaced
Clients == 0..MaxClients
Workers == {1, 2}
\* reply envelopes without the worker: a result, the sentinel, a worker failure
Replies == {[success |-> TRUE, data |-> "data"],
            [success |-> FALSE, data |-> "No worker"],
            [success |-> FALSE, data |-> "error"]}
\* timeout argument of execute: omitted, or an explicit value
TimeoutArgs == {None, timeout_max_overflow + 1}
\* timeout argument of ping
PingTimeouts == {1}
\* replies to PING, as character codes: "42" and "pid"
PingReplies == {<<52, 50>>, <<112, 105, 100>>}

VARIABLES
  pc,        \* per thread: "idle", "get", "send", "poll", "recv", "scope", "done"
  op,        \* per thread: the operation being called
  conn,      \* per thread: the Client the call runs on
  targ,      \* per thread: the timeout argument of the call
  elapsed,   \* per thread: ticks since timed(_execute) started
  waited,    \* per thread: ticks spent in the current poller.poll()
  res,       \* per thread: outcome of the call (with the reply it was made from)
  connectors,  \* Pool._connectors, the queue of Clients
  nextId,    \* id of the next Client to be constructed
  closed,    \* per Client: close() was called
  lock,      \* per Client: holder of Client.lock, 0 when free
  pending,   \* per Client: requests sent on master whose reply is unread
  timeout_counters, \* per Client: worker -> overflow counter
  kill_ctx,  \* per Client: Client.kill_ctx
  ctxOf,     \* per Client: Client.ctx
  ctxAlive,  \* per context: not destroyed
  ctxGiven,  \* a context was supplied to the constructors
  size,      \* the size argument of the Pool
  poolClosed \* Pool.close() was called

vars == <<pc, op, conn, targ, elapsed, waited, res, connectors, nextId,
          closed, lock, pending, timeout_counters, kill_ctx, ctxOf, ctxAlive,
          ctxGiven, size, poolClosed>>

tvars == <<op, conn, targ, elapsed, waited>>
cargs == <<op, conn>>
cvars == <<closed, kill_ctx, ctxOf, ctxAlive, ctxGiven, size, poolClosed>>

\* ---- outcomes of a call ---------------------------------------------------
NoRes ==
  [kind |-> "none", exc |-> "", data |-> "", raw |-> <<>>, num |-> -1,
   worker |-> 0, success |-> FALSE, payload |-> "", dur |-> "",
   isNone |-> FALSE, sends |-> 0]

ReturnNone == [NoRes EXCEPT !.kind = "return", !.isNone = TRUE]

Return(d) == [NoRes EXCEPT !.kind = "return", !.data = d]

Raise(e, d) == [NoRes EXCEPT !.kind = "raise", !.exc = e, !.data = d]

ViaPool(t) == op[t] \in {"Pool.execute", "Pool.ping"}

IsExecute(t) == op[t] \in {"Pool.execute", "Client.execute"}

\* ---- pure parts of Client ---------------------------------------------------
\* the poll timeout of Client._execute (client.py:76-77, 144-145, 152)
PollTimeout(to, movf) ==
  IF to = None THEN movf ELSE to

IsDigit(ch) == ch \in 48..57

RECURSIVE DecVal(_)
DecVal(s) ==
  IF s = <<>> THEN 0
  ELSE 10 * DecVal(SubSeq(s, 1, Len(s) - 1)) + (s[Len(s)] - 48)

\* int(res) of a string: the value, or the exception it raises
IntOf(s) ==
  IF s # <<>> /\ \A i \in 1..Len(s) : IsDigit(s[i])
  THEN [exc |-> "", val |-> DecVal(s)]
  ELSE [exc |-> "ValueError", val |-> -1]

\* Client.ping after recv (client.py:123-128): only TypeError is caught
PingResult(raw) ==
  LET r == IntOf(raw) IN
  IF r.exc = "" THEN [Return("") EXCEPT !.raw = raw, !.num = r.val]
  ELSE IF r.exc = "TypeError" THEN [Return("") EXCEPT !.raw = raw]
  ELSE [Raise(r.exc, "") EXCEPT !.raw = raw]

\* NewCounter without the reset
NewCounterNoReset(cnt, dur, base) ==
  IF dur > base THEN cnt + 1 ELSE cnt

\* the measured duration against the two timeouts of the Client
DurClass(e) ==
  IF e <= timeout THEN "intime"
  ELSE IF e <= timeout_max_overflow THEN "late" ELSE "over"

\* the overflow counter after a reply (client.py:85-93)
NewCounter(cnt, dur, base) ==
  IF dur > base THEN cnt + 1 ELSE 0

\* Classify with the tolerance test off by one
ClassifyGE(cnt, dur, success, data, base, tolerance) ==
  IF dur > base /\ NewCounter(cnt, dur, base) >= tolerance
  THEN Raise("TimeoutError", "")
  ELSE IF ~success
       THEN IF data = "No worker" THEN Raise("NoWorkerError", "")
            ELSE Raise("ExecutionError", data)
       ELSE Return(data)

\* Classify with the failure classification before the overflow test
ClassifyFailureFirst(cnt, dur, success, data, base, tolerance) ==
  IF ~success
  THEN IF data = "No worker" THEN Raise("NoWorkerError", "")
       ELSE Raise("ExecutionError", data)
  ELSE IF dur > base /\ NewCounter(cnt, dur, base) > tolerance
       THEN Raise("TimeoutError", "")
       ELSE Return(data)

\* Classify without the sentinel test
ClassifyNoSentinel(cnt, dur, success, data, base, tolerance) ==
  IF dur > base /\ NewCounter(cnt, dur, base) > tolerance
  THEN Raise("TimeoutError", "")
  ELSE IF ~success THEN Raise("ExecutionError", data)
       ELSE Return(data)

\* the outcome of Client.execute on a reply (client.py:85-104)
Classify(cnt, dur, success, data, base, tolerance) ==
  IF dur > base /\ NewCounter(cnt, dur, base) > tolerance
  THEN Raise("TimeoutError", "")
  ELSE IF ~success
       THEN IF data = "No worker" THEN Raise("NoWorkerError", "")
            ELSE Raise("ExecutionError", data)
       ELSE Return(data)

\* the requests of thread t become requests of an ended call
Ended(seq, t) == [i \in DOMAIN seq |-> IF seq[i] = t THEN 0 ELSE seq[i]]

CheckedOut == {t \in Threads : pc[t] \in {"send", "poll", "recv", "scope"} /\ ViaPool(t)}

InQueue(c) == \E i \in 1..Len(connectors) : connectors[i] = c

\* ---- construction -----------------------------------------------------------
\* KillCtx that ignores the argument
KillCtxAlways(ctxArg) == TRUE

\* Client.__init__: self.kill_ctx = ctx is None (client.py:44)
KillCtx(ctxArg) == ctxArg = "None"

\* Client.__init__: self.ctx = ctx or zmq.Context() (client.py:45)
ClientCtx(ctxArg, fresh) == IF ctxArg = "None" THEN fresh ELSE ctxArg

\* Pool.__init__: self.ctx = ctx or zmq.Context() (client.py:193)
PoolCtx == IF ctxGiven THEN "ext" ELSE "pool"

\* the ctx argument the bare Client is constructed with
BareArg == IF ctxGiven THEN "ext" ELSE "None"

\* Client.__init__ (client.py:44-56) and Pool.__init__ (client.py:187-196)
Init ==
  /\ ctxGiven \in BOOLEAN
  /\ size \in 1..Size
  /\ pc = [t \in Threads |-> "idle"]
  /\ op = [t \in Threads |-> "Client.ping"]
  /\ conn = [t \in Threads |-> Bare]
  /\ targ = [t \in Threads |-> None]
  /\ elapsed = [t \in Threads |-> 0]
  /\ waited = [t \in Threads |-> 0]
  /\ res = [t \in Threads |-> NoRes]
  /\ connectors = [i \in 1..size |-> i]
  /\ nextId = size + 1
  /\ closed = [c \in Clients |-> FALSE]
  /\ lock = [c \in Clients |-> 0]
  /\ pending = [c \in Clients |-> <<>>]
  /\ timeout_counters = [c \in Clients |-> [w \in Workers |-> 0]]
  /\ kill_ctx = [c \in Clients |->
                   IF c = Bare THEN KillCtx(BareArg)
                   ELSE IF c <= size THEN KillCtx(PoolCtx) ELSE FALSE]
  /\ ctxOf = [c \in Clients |->
                IF c = Bare THEN ClientCtx(BareArg, "bare")
                ELSE IF c <= size THEN ClientCtx(PoolCtx, "own") ELSE "None"]
  /\ ctxAlive = [x \in {"ext", "bare", "pool"} |-> TRUE]
  /\ poolClosed = FALSE

\* ---- entering a call ----------------------------------------------------------
\* a thread calls Client.execute or Client.ping on the shared bare Client
ClientCall(t) ==
  /\ pc[t] = "idle"
  /\ ~closed[Bare]
  /\ ctxAlive[ctxOf[Bare]]
  /\ \E o \in {"Client.execute", "Client.ping"} :
       /\ op' = [op EXCEPT ![t] = o]
       /\ \E to \in (IF o = "Client.execute" THEN TimeoutArgs ELSE PingTimeouts) :
            targ' = [targ EXCEPT ![t] = to]
  /\ conn' = [conn EXCEPT ![t] = Bare]
  /\ pc' = [pc EXCEPT ![t] = "send"]
  /\ UNCHANGED <<elapsed, waited, res, connectors, nextId, lock, pending,
                 timeout_counters, cvars>>

\* a thread calls Pool.execute or Pool.ping (client.py:218-220, 225-227)
PoolCall(t) ==
  /\ pc[t] = "idle"
  /\ ~poolClosed
  /\ \E o \in {"Pool.execute", "Pool.ping"} :
       /\ op' = [op EXCEPT ![t] = o]
       /\ \E to \in (IF o = "Pool.execute" THEN TimeoutArgs ELSE PingTimeouts) :
            targ' = [targ EXCEPT ![t] = to]
  /\ pc' = [pc EXCEPT ![t] = "get"]
  /\ UNCHANGED <<conn, elapsed, waited, res, connectors, nextId, lock, pending,
                 timeout_counters, cvars>>

\* PoolGet that leaves the Client in the queue
PoolGetNoPop(t) ==
  /\ pc[t] = "get"
  /\ connectors # <<>>
  /\ conn' = [conn EXCEPT ![t] = Head(connectors)]
  /\ pc' = [pc EXCEPT ![t] = "send"]
  /\ UNCHANGED <<op, targ, elapsed, waited, res, connectors, nextId, lock,
                 pending, timeout_counters, cvars>>

\* Pool._connector: self._connectors.get(timeout) returns a Client (client.py:205)
PoolGet(t) ==
  /\ pc[t] = "get"
  /\ connectors # <<>>
  /\ conn' = [conn EXCEPT ![t] = Head(connectors)]
  /\ connectors' = Tail(connectors)
  /\ pc' = [pc EXCEPT ![t] = "send"]
  /\ UNCHANGED <<op, targ, elapsed, waited, res, nextId, lock, pending,
                 timeout_counters, cvars>>

\* PoolGetTimeout that treats Empty as a failure of the scope and puts a new
\* Client in the queue
PoolGetTimeoutReplace(t) ==
  /\ pc[t] = "get"
  /\ connectors = <<>>
  /\ op[t] = "Pool.execute" => targ[t] # None
  /\ nextId <= MaxClients
  /\ res' = [res EXCEPT ![t] = Raise("Empty", "")]
  /\ pc' = [pc EXCEPT ![t] = "done"]
  /\ kill_ctx' = [kill_ctx EXCEPT ![nextId] = KillCtx(PoolCtx)]
  /\ ctxOf' = [ctxOf EXCEPT ![nextId] = ClientCtx(PoolCtx, "own")]
  /\ connectors' = Append(connectors, nextId)
  /\ nextId' = nextId + 1
  /\ UNCHANGED <<tvars, lock, pending, timeout_counters, closed, ctxAlive,
                 ctxGiven, size, poolClosed>>

\* Pool._connector: self._connectors.get(timeout) raises Empty (client.py:205);
\* Pool.execute waits `timeout` (forever when None), Pool.ping waits self.timeout
PoolGetTimeout(t) ==
  /\ pc[t] = "get"
  /\ connectors = <<>>
  /\ op[t] = "Pool.execute" => targ[t] # None
  /\ res' = [res EXCEPT ![t] = Raise("Empty", "")]
  /\ pc' = [pc EXCEPT ![t] = "done"]
  /\ UNCHANGED <<tvars, connectors, nextId, lock, pending, timeout_counters, cvars>>

\* ---- Client._execute and Client.ping ------------------------------------------
\* the end of the Client's part of a call, with outcome r; the outcome keeps
\* the number of times the call has called send
EndCall(t, r) ==
  /\ res' = [res EXCEPT ![t] = [r EXCEPT !.sends = r.sends + res[t].sends]]
  /\ targ' = [targ EXCEPT ![t] = None]
  /\ pc' = [pc EXCEPT ![t] = IF ViaPool(t) THEN "scope" ELSE "done"]
  /\ waited' = [waited EXCEPT ![t] = 0]
  /\ elapsed' = [elapsed EXCEPT ![t] = 0]

\* the timeout the call passes to poller.poll (client.py:116, 152)
PollTimeoutOf(t) ==
  IF IsExecute(t) THEN PollTimeout(targ[t], timeout_max_overflow) ELSE targ[t]

\* with self.lock: send(self.master, ...) on a connector with no request
\* outstanding (client.py:112-113, 147-148)
Send(t) ==
  LET c == conn[t] IN
  /\ pc[t] = "send"
  /\ lock[c] = 0
  /\ pending[c] = <<>>
  /\ lock' = [lock EXCEPT ![c] = t]
  /\ pending' = [pending EXCEPT ![c] = Append(@, t)]
  /\ pc' = [pc EXCEPT ![t] = "poll"]
  /\ waited' = [waited EXCEPT ![t] = 0]
  /\ res' = [res EXCEPT ![t].sends = @ + 1]
  /\ UNCHANGED <<op, conn, targ, elapsed, connectors, nextId,
                 timeout_counters, cvars>>

\* the same send on a connector whose previous request has no reply read yet:
\* master is a REQ socket (client.py:47), which takes no request while a reply
\* is awaited; the error of send leaves the with block and the call
SendBusy(t) ==
  LET c == conn[t] IN
  /\ pc[t] = "send"
  /\ lock[c] = 0
  /\ pending[c] # <<>>
  /\ EndCall(t, [Raise("ZMQError", "send") EXCEPT !.sends = 1])
  /\ UNCHANGED <<op, conn, lock, pending, connectors, nextId,
                 timeout_counters, cvars>>

\* a tick of the clock passes while the call waits in poll, or waits for the
\* lock inside timed(_execute); elapsed saturates at MaxElapsed
Tick(t) ==
  LET c == conn[t]
      e == IF IsExecute(t) /\ elapsed[t] < MaxElapsed
           THEN elapsed[t] + 1 ELSE elapsed[t] IN
  /\ \/ /\ pc[t] = "poll"
        /\ waited[t] < PollTimeoutOf(t)
        /\ waited' = [waited EXCEPT ![t] = @ + 1]
     \/ /\ pc[t] = "send"
        /\ lock[c] # 0
        /\ IsExecute(t)
        /\ elapsed[t] < MaxElapsed
        /\ UNCHANGED waited
  /\ elapsed' = [elapsed EXCEPT ![t] = e]
  /\ UNCHANGED <<pc, op, conn, targ, res, connectors, nextId, lock,
                 pending, timeout_counters, cvars>>

\* poller.poll raises ZMQError with errno EINTR: the loop polls again with the
\* same timeout (client.py:114-120, 150-156)
PollEINTR(t) ==
  /\ pc[t] = "poll"
  /\ waited[t] > 0
  /\ waited' = [waited EXCEPT ![t] = 0]
  /\ UNCHANGED <<pc, op, conn, targ, elapsed, res, connectors, nextId, lock,
                 pending, timeout_counters, cvars>>

\* PollError that returns without releasing the lock
PollErrorKeepsLock(t) ==
  LET c == conn[t] IN
  /\ pc[t] = "poll"
  /\ pending' = [pending EXCEPT ![c] = Ended(@, t)]
  /\ EndCall(t, IF IsExecute(t) THEN Raise("ZMQError", "poll") ELSE ReturnNone)
  /\ UNCHANGED <<cargs, lock, connectors, nextId, timeout_counters, cvars>>

\* poller.poll raises ZMQError with another errno: _execute re-raises,
\* ping returns None; the with block releases the lock (client.py:118-120, 154-156)
PollError(t) ==
  LET c == conn[t] IN
  /\ pc[t] = "poll"
  /\ lock' = [lock EXCEPT ![c] = 0]
  /\ pending' = [pending EXCEPT ![c] = Ended(@, t)]
  /\ EndCall(t, IF IsExecute(t) THEN Raise("ZMQError", "poll") ELSE ReturnNone)
  /\ UNCHANGED <<cargs, connectors, nextId, timeout_counters, cvars>>

\* poller.poll returns POLLIN for master: a reply can be read; the with block
\* ends and releases the lock before recv (client.py:116-117, 152-153); the
\* reply comes from a worker whose counter stays within MaxCounter
PollReady(t) ==
  LET c == conn[t] IN
  /\ pc[t] = "poll"
  /\ pending[c] # <<>>
  /\ IsExecute(t) =>
       \E w \in Workers :
         NewCounter(timeout_counters[c][w], elapsed[t], timeout) <= MaxCounter
  /\ lock' = [lock EXCEPT ![c] = 0]
  /\ pc' = [pc EXCEPT ![t] = "recv"]
  /\ targ' = [targ EXCEPT ![t] = None]
  /\ waited' = [waited EXCEPT ![t] = 0]
  /\ UNCHANGED <<op, conn, elapsed, res, connectors, nextId, pending,
                 timeout_counters, cvars>>

\* PollEmpty that ends the call with the lock still held
PollEmptyKeepsLock(t) ==
  LET c == conn[t] IN
  /\ pc[t] = "poll"
  /\ waited[t] >= PollTimeoutOf(t)
  /\ pending' = [pending EXCEPT ![c] = Ended(@, t)]
  /\ EndCall(t, IF IsExecute(t) THEN Raise("TimeoutError", "") ELSE ReturnNone)
  /\ UNCHANGED <<cargs, lock, connectors, nextId, timeout_counters, cvars>>

\* PollEmpty that sends the request again instead of ending the call
PollEmptyRetry(t) ==
  LET c == conn[t] IN
  /\ pc[t] = "poll"
  /\ waited[t] >= PollTimeoutOf(t)
  /\ lock' = [lock EXCEPT ![c] = 0]
  /\ pending' = [pending EXCEPT ![c] = Ended(@, t)]
  /\ pc' = [pc EXCEPT ![t] = "send"]
  /\ waited' = [waited EXCEPT ![t] = 0]
  /\ UNCHANGED <<op, conn, targ, elapsed, res, connectors, nextId,
                 timeout_counters, cvars>>

\* poller.poll returns nothing after its timeout: _execute raises TimeoutError,
\* ping returns None (client.py:122, 130, 158, 161)
PollEmpty(t) ==
  LET c == conn[t] IN
  /\ pc[t] = "poll"
  /\ waited[t] >= PollTimeoutOf(t)
  /\ lock' = [lock EXCEPT ![c] = 0]
  /\ pending' = [pending EXCEPT ![c] = Ended(@, t)]
  /\ EndCall(t, IF IsExecute(t) THEN Raise("TimeoutError", "") ELSE ReturnNone)
  /\ UNCHANGED <<cargs, connectors, nextId, timeout_counters, cvars>>

\* extract_result(recv(self.master)): the reply envelope decoded to
\* (worker_pid, res, data)
extract_result(reply) == <<reply.worker, reply.success, reply.data>>

\* Client._execute reads the reply (client.py:158-159) and Client.execute
\* classifies it (client.py:80-104)
RecvExecute(t) ==
  LET c == conn[t] IN
  /\ pc[t] = "recv"
  /\ IsExecute(t)
  /\ pending[c] # <<>>
  /\ \E w \in Workers, m \in Replies :
       LET r == extract_result([worker |-> w, success |-> m.success, data |-> m.data])
           worker_pid == r[1]
           cnt == timeout_counters[c][worker_pid]
           new == NewCounter(cnt, elapsed[t], timeout)
           out == Classify(cnt, elapsed[t], r[2], r[3], timeout,
                           timeout_overflows) IN
       /\ new <= MaxCounter
       /\ timeout_counters' = [timeout_counters EXCEPT ![c][worker_pid] = new]
       /\ EndCall(t, [out EXCEPT !.worker = worker_pid, !.success = r[2],
                                 !.payload = r[3], !.dur = DurClass(elapsed[t])])
  /\ pending' = [pending EXCEPT ![c] = Ended(Tail(@), t)]
  /\ UNCHANGED <<cargs, connectors, nextId, lock, cvars>>

\* Client.ping reads the reply and converts it (client.py:122-128)
RecvPing(t) ==
  LET c == conn[t] IN
  /\ pc[t] = "recv"
  /\ ~IsExecute(t)
  /\ pending[c] # <<>>
  /\ \E raw \in PingReplies :
       EndCall(t, PingResult(raw))
  /\ pending' = [pending EXCEPT ![c] = Ended(Tail(@), t)]
  /\ UNCHANGED <<cargs, connectors, nextId, lock, timeout_counters, cvars>>

\* ---- Pool._connector: leaving the scope ------------------------------------------
\* PoolPutBack that ends the scope without returning the Client
PoolPutBackDrop(t) ==
  /\ pc[t] = "scope"
  /\ res[t].kind = "return"
  /\ pc' = [pc EXCEPT ![t] = "done"]
  /\ UNCHANGED <<tvars, res, connectors, nextId, lock, pending,
                 timeout_counters, cvars>>

\* PoolPutBack that forgets the overflow counters of the Client
PoolPutBackReset(t) ==
  /\ pc[t] = "scope"
  /\ res[t].kind = "return"
  /\ connectors' = Append(connectors, conn[t])
  /\ timeout_counters' = [timeout_counters EXCEPT ![conn[t]] = [w \in Workers |-> 0]]
  /\ pc' = [pc EXCEPT ![t] = "done"]
  /\ UNCHANGED <<tvars, res, nextId, lock, pending, cvars>>

\* no exception: self._connectors.put(connector) (client.py:215-216)
PoolPutBack(t) ==
  /\ pc[t] = "scope"
  /\ res[t].kind = "return"
  /\ connectors' = Append(connectors, conn[t])
  /\ pc' = [pc EXCEPT ![t] = "done"]
  /\ UNCHANGED <<tvars, res, nextId, lock, pending, timeout_counters, cvars>>

\* Client.close: the socket is closed, the context destroyed when kill_ctx
\* (client.py:132-138)
CtxAfterClose(c) ==
  IF kill_ctx[c] THEN [ctxAlive EXCEPT ![ctxOf[c]] = FALSE] ELSE ctxAlive

\* PoolReplace whose new Client takes over the counters of the failed one
PoolReplaceKeepsCounters(t) ==
  /\ pc[t] = "scope"
  /\ res[t].kind = "raise"
  /\ nextId <= size + MaxReplaced
  /\ closed' = [closed EXCEPT ![conn[t]] = TRUE]
  /\ ctxAlive' = CtxAfterClose(conn[t])
  /\ kill_ctx' = [kill_ctx EXCEPT ![nextId] = KillCtx(PoolCtx)]
  /\ ctxOf' = [ctxOf EXCEPT ![nextId] = ClientCtx(PoolCtx, "own")]
  /\ connectors' = Append(connectors, nextId)
  /\ nextId' = nextId + 1
  /\ pending' = [pending EXCEPT ![conn[t]] = <<>>]
  /\ timeout_counters' = [timeout_counters EXCEPT
                            ![nextId] = timeout_counters[conn[t]],
                            ![conn[t]] = [w \in Workers |-> 0]]
  /\ pc' = [pc EXCEPT ![t] = "done"]
  /\ UNCHANGED <<tvars, res, lock, ctxGiven, size, poolClosed>>

\* PoolReplace that puts the failed Client back
PoolReplaceReuse(t) ==
  /\ pc[t] = "scope"
  /\ res[t].kind = "raise"
  /\ connectors' = Append(connectors, conn[t])
  /\ pc' = [pc EXCEPT ![t] = "done"]
  /\ UNCHANGED <<tvars, res, nextId, lock, pending, timeout_counters, cvars>>

\* an exception: connector.close(), then a new Client is put in the queue and the
\* exception is re-raised (client.py:208-214, 198-201)
PoolReplace(t) ==
  /\ pc[t] = "scope"
  /\ res[t].kind = "raise"
  /\ nextId <= size + MaxReplaced
  /\ closed' = [closed EXCEPT ![conn[t]] = TRUE]
  /\ ctxAlive' = CtxAfterClose(conn[t])
  /\ kill_ctx' = [kill_ctx EXCEPT ![nextId] = KillCtx(PoolCtx)]
  /\ ctxOf' = [ctxOf EXCEPT ![nextId] = ClientCtx(PoolCtx, "own")]
  /\ connectors' = Append(connectors, nextId)
  /\ nextId' = nextId + 1
  \* the socket is closed with LINGER 0 and the Client object is dropped
  /\ pending' = [pending EXCEPT ![conn[t]] = <<>>]
  /\ timeout_counters' = [timeout_counters EXCEPT ![conn[t]] = [w \in Workers |-> 0]]
  /\ pc' = [pc EXCEPT ![t] = "done"]
  /\ UNCHANGED <<tvars, res, lock, ctxGiven, size, poolClosed>>

\* ---- close ---------------------------------------------------------------------
\* Client.close() of the bare Client, once no call runs on it (client.py:132-138)
ClientClose ==
  /\ \A t \in Threads : pc[t] \in {"idle", "done"} \/ ViaPool(t)
  /\ ~closed[Bare]
  /\ closed' = [closed EXCEPT ![Bare] = TRUE]
  /\ ctxAlive' = CtxAfterClose(Bare)
  /\ UNCHANGED <<pc, tvars, res, connectors, nextId, lock, pending,
                 timeout_counters, kill_ctx, ctxOf, ctxGiven, size, poolClosed>>

\* Pool.close(), once no call runs on the Pool (client.py:222-223)
PoolClose ==
  /\ \A t \in Threads : pc[t] \in {"idle", "done"} \/ ~ViaPool(t)
  /\ ~poolClosed
  /\ poolClosed' = TRUE
  /\ ctxAlive' = [ctxAlive EXCEPT ![PoolCtx] = FALSE]
  /\ UNCHANGED <<pc, tvars, res, connectors, nextId, lock, pending,
                 timeout_counters, closed, kill_ctx, ctxOf, ctxGiven, size>>

\* the caller has its result or its exception and goes on
Resume(t) ==
  /\ pc[t] = "done"
  /\ pc' = [pc EXCEPT ![t] = "idle"]
  /\ op' = [op EXCEPT ![t] = "Client.ping"]
  /\ conn' = [conn EXCEPT ![t] = Bare]
  /\ res' = [res EXCEPT ![t] = NoRes]
  /\ UNCHANGED <<targ, elapsed, waited, connectors, nextId, lock, pending, timeout_counters, cvars>>

\* the steps of a call inside Client
ClientStep(t) ==
  \/ Send(t)
  \/ SendBusy(t)
  \/ Tick(t)
  \/ PollEINTR(t)
  \/ PollError(t)
  \/ PollReady(t)
  \/ PollEmpty(t)
  \/ RecvExecute(t)
  \/ RecvPing(t)

\* the clock advances, a poll whose timeout has elapsed returns, a reply that
\* is ready is read, a thread that finds the lock free again and again gets
\* it, and each wait is interrupted only finitely often
FairClient(t) ==
  /\ WF_vars(Tick(t))
  /\ WF_vars(PollEmpty(t))
  /\ WF_vars(RecvExecute(t) \/ RecvPing(t))
  /\ SF_vars(Send(t) \/ SendBusy(t))
  /\ <>[][~PollEINTR(t)]_vars

\* threads calling the Pool; the bare Client is only constructed, and closed
\* after the Pool
Next ==
  \/ \E t \in Threads : PoolCall(t)
  \/ \E t \in Threads : PoolGet(t)
  \/ \E t \in Threads : PoolGetTimeout(t)
  \/ \E t \in Threads : ClientStep(t)
  \/ \E t \in Threads : PoolPutBack(t)
  \/ \E t \in Threads : PoolReplace(t)
  \/ \E t \in Threads : Resume(t)
  \/ poolClosed /\ ClientClose
  \/ PoolClose

Spec == Init /\ [][Next]_vars

\* the steps of the Client are fair as on the bare Client, the scope of
\* _connector ends once the call has ended, and a caller that finds the queue
\* non-empty again and again gets a Client
FairPool(t) ==
  /\ FairClient(t)
  /\ WF_vars(PoolPutBack(t))
  /\ WF_vars(PoolReplace(t))
  /\ SF_vars(PoolGet(t))

\* Pool(size=1), the smallest Pool that callers contend for
InitOne == Init /\ size = 1

SpecLive == InitOne /\ [][Next]_vars /\ \A t \in Threads : FairPool(t)

\* threads sharing the bare Client
NextClient ==
  \/ \E t \in Threads : ClientCall(t)
  \/ \E t \in Threads : ClientStep(t)
  \/ \E t \in Threads : Resume(t)
  \/ ClientClose

SpecClient == Init /\ [][NextClient]_vars

SpecClientLive == InitOne /\ [][NextClient]_vars /\ \A t \in Threads : FairClient(t)

TypeOK ==
  /\ pc \in [Threads -> {"idle", "get", "send", "poll", "recv", "scope", "done"}]
  /\ conn \in [Threads -> Clients]
  /\ \A c \in Clients : lock[c] \in Threads \cup {0}
  /\ \A c \in Clients : Len(pending[c]) <= 1
  /\ nextId \in 1..(MaxClients + 1)
  /\ size \in 1..Size

\* ---- properties ------------------------------------------------------------------
NoCallInProgress == \A t \in Threads : pc[t] \in {"idle", "done"}

\* a Client that a new call can use: open, and no request without its reply read
Usable(c) == ~closed[c] /\ pending[c] = <<>>

\* C1: at every moment the queued Clients plus the checked-out Clients are
\* `size`; once no call is in progress the queue holds exactly `size` Clients,
\* all distinct and all usable (not closed, no unanswered request outstanding).
C1_PoolKeepsSizeUsableClients ==
  /\ Len(connectors) + Cardinality(CheckedOut) = size
  /\ NoCallInProgress =>
       /\ Len(connectors) = size
       /\ \A i, j \in 1..Len(connectors) :
            connectors[i] = connectors[j] => i = j
       /\ \A i \in 1..Len(connectors) : Usable(connectors[i])

\* C2: a Client with a request sent and its reply unread is never put back in
\* the queue and never handed to a later caller of the Pool, and no caller of
\* the Pool reads a reply that answers a request of an earlier call.
C2_InconsistentClientNeverReused ==
  /\ \A i \in 1..Len(connectors) : pending[connectors[i]] = <<>>
  /\ \A t \in Threads :
       ViaPool(t) /\ pc[t] = "send" => pending[conn[t]] = <<>>
  /\ \A t \in Threads :
       ViaPool(t) /\ pc[t] = "recv" => pending[conn[t]] = <<t>>

\* C3: on the bare Client no caller sends a request while a request sent before
\* on the same Client has not had its reply read: every send finds the
\* connector without an outstanding request.
C3_OneRequestInFlight ==
  [][\A t \in Threads :
       pc[t] = "send" /\ pc'[t] # "send" => pending[conn[t]] = <<>>]_vars

\* the step in which thread t reads the reply of its execute and classifies it
ExecuteReplied(t) == pc[t] = "recv" /\ IsExecute(t) /\ pc'[t] # "recv"

\* what the failure classification alone makes of a reply
Normal(r) ==
  IF r.success THEN r.kind = "return" /\ r.data = r.payload
  ELSE IF r.payload = "No worker" THEN r.kind = "raise" /\ r.exc = "NoWorkerError"
  ELSE r.kind = "raise" /\ r.exc = "ExecutionError" /\ r.data = r.payload

\* C4: an execute that gets its reply from worker w after more than the base
\* timeout increments the counter of w by one and raises TimeoutError exactly
\* when the incremented counter exceeds the tolerance, else the reply is
\* classified normally; with tolerance 1 the first late call leaves counter 1
\* and is classified normally, the next late call raises TimeoutError, and a
\* call within the base timeout puts the counter back to 0.
C4_LateReplyCountsAndTimesOut ==
  [][\A t \in Threads :
       ExecuteReplied(t) =>
         LET c == conn[t]
             w == res'[t].worker
             old == timeout_counters[c][w]
             new == timeout_counters'[c][w] IN
         /\ elapsed[t] > timeout =>
              /\ new = old + 1
              /\ res'[t].exc = "TimeoutError" <=> new > timeout_overflows
              /\ new <= timeout_overflows => Normal(res'[t])
         /\ timeout_overflows = 1 /\ elapsed[t] > timeout /\ old = 0 =>
              new = 1 /\ Normal(res'[t])
         /\ timeout_overflows = 1 /\ elapsed[t] > timeout /\ old = 1 =>
              res'[t].kind = "raise" /\ res'[t].exc = "TimeoutError"
         /\ elapsed[t] <= timeout => new = 0]_vars

\* a second late call in a row has raised TimeoutError on a successful reply
C4_Witness ==
  \E t \in Threads :
    /\ pc[t] = "done" /\ op[t] = "Client.execute"
    /\ res[t].exc = "TimeoutError" /\ res[t].worker # 0 /\ res[t].success
    /\ res[t].dur = "late"
    /\ timeout_counters[Bare][res[t].worker] = timeout_overflows + 1

\* C5: after an execute that gets its reply from worker w within the base
\* timeout, the counter of w on that Client is 0, whatever it was before and
\* whether the reply reports success or failure.
C5_InTimeReplyResetsCounter ==
  [][\A t \in Threads :
       ExecuteReplied(t) /\ elapsed[t] <= timeout =>
         /\ timeout_counters'[conn[t]][res'[t].worker] = 0
         /\ Normal(res'[t])]_vars

\* a failure reply within the base timeout, counter of its worker at 0 while the
\* other worker keeps its overflow
C5_Witness ==
  \E t \in Threads :
    /\ pc[t] = "done" /\ op[t] = "Client.execute"
    /\ res[t].worker = 1 /\ ~res[t].success /\ res[t].dur = "intime"
    /\ timeout_counters[Bare][1] = 0
    /\ timeout_counters[Bare][2] > 0

\* C6: when a call raises while its Client is checked out, the Client is closed
\* and is not put back, a freshly constructed Client is appended to the queue
\* before the caller has the error, and the caller gets the exception the
\* Client raised, unchanged.
C6_ExceptionReplacesClient ==
  /\ [](\A t \in Threads :
          pc[t] = "done" /\ ViaPool(t) /\ res[t].kind = "raise"
            /\ res[t].exc # "Empty" =>
              /\ closed[conn[t]]
              /\ ~InQueue(conn[t])
              /\ Len(connectors) + Cardinality(CheckedOut) = size)
  /\ [][\A t \in Threads :
          pc[t] = "scope" /\ res[t].kind = "raise" /\ pc'[t] # "scope" =>
            LET n == connectors'[Len(connectors')] IN
            /\ pc'[t] = "done"
            /\ res'[t] = res[t]
            /\ closed'[conn[t]]
            /\ connectors' = Append(connectors, n)
            /\ n # conn[t] /\ ~InQueue(n)
            /\ \A u \in Threads : pc[u] \notin {"idle", "done"} => conn[u] # n
            /\ ~closed'[n]
            /\ pending'[n] = <<>>
            /\ \A w \in Workers : timeout_counters'[n][w] = 0
            /\ kill_ctx'[n] = FALSE /\ ctxOf'[n] = PoolCtx]_vars

\* a caller of Pool.execute has a TimeoutError, its Client is closed and the
\* queue is full again
C6_Witness ==
  \E t \in Threads :
    /\ pc[t] = "done" /\ op[t] = "Pool.execute"
    /\ res[t].kind = "raise" /\ res[t].exc = "TimeoutError"
    /\ closed[conn[t]]
    /\ Len(connectors) = size
    /\ ~closed[connectors[Len(connectors)]]

\* the tolerance is exceeded by the reply thread t is reading
Exceeded(t, w) ==
  elapsed[t] > timeout /\ timeout_counters[conn[t]][w] + 1 > timeout_overflows

AllDigits(s) == s # <<>> /\ \A i \in 1..Len(s) : s[i] \in 48..57

\* C8: ping returns none when no reply arrives within its timeout; when a reply
\* arrives it returns the integer the reply spells when it spells one and the
\* reply as received otherwise; it never raises because of the reply's content.
C8_PingNeverRaisesOnContent ==
  \A t \in Threads :
    pc[t] = "done" /\ op[t] = "Client.ping" =>
      IF res[t].raw = <<>>
      THEN res[t].kind = "return" => res[t].isNone
      ELSE /\ res[t].kind = "return"
           /\ ~res[t].isNone
           /\ AllDigits(res[t].raw) => res[t].num >= 0
           /\ ~AllDigits(res[t].raw) => res[t].num = -1

\* C9: an interrupted wait (EINTR) leaves the call waiting, with its lock and
\* without an outcome; a wait that ends the call without a reply before the
\* poll timeout has elapsed (any other wait error) makes execute raise the
\* ZMQError and ping return none; whenever a wait ends the call the lock of
\* the Client is free.
C9_WaitErrors ==
  [][\A t \in Threads :
       pc[t] = "poll" =>
         LET c == conn[t] IN
         /\ pc'[t] = "poll" /\ waited'[t] < waited[t] =>
              lock'[c] = t /\ res'[t] = res[t] /\ pending'[c] = pending[c]
         /\ pc'[t] \notin {"poll", "recv"} =>
              /\ lock'[c] = 0
              /\ waited[t] < PollTimeoutOf(t) =>
                   IF IsExecute(t)
                   THEN res'[t].kind = "raise" /\ res'[t].exc = "ZMQError"
                   ELSE res'[t].kind = "return" /\ res'[t].isNone]_vars

\* an execute ended by a fatal wait error and left the lock free: another
\* thread took the lock afterwards and reached its send
C9_Witness ==
  \E t, u \in Threads :
    /\ pc[t] = "done" /\ op[t] = "Client.execute"
    /\ res[t].exc = "ZMQError" /\ res[t].data = "poll"
    /\ lock[Bare] = 0
    /\ u # t /\ pc[u] = "done" /\ res[u].exc = "ZMQError" /\ res[u].data = "send"

\* the Client was constructed without a context and made its own
OwnsCtx(c) == c = Bare /\ ~ctxGiven

\* C10: Client.close destroys the context exactly when the Client made the
\* context itself; the context of the Pool is alive until Pool.close, whatever
\* calls failed and Clients were replaced, and is destroyed by Pool.close
\* whether it was supplied or not.
C10_ContextOwnership ==
  /\ [][\A c \in Clients :
          ~closed[c] /\ closed'[c] =>
            (ctxAlive[ctxOf[c]] /\ ~ctxAlive'[ctxOf[c]] <=> OwnsCtx(c))]_vars
  /\ [](poolClosed <=> ~ctxAlive[PoolCtx])

\* a Client of the Pool was replaced, then Pool.close destroyed the context of
\* the Pool and the bare Client destroyed its own
C10_Witness ==
  /\ nextId > size + 1
  /\ \E c \in 1..MaxClients : closed[c]
  /\ poolClosed /\ ~ctxAlive[PoolCtx]
  /\ closed[Bare] /\ ~ctxGiven /\ ~ctxAlive["bare"]

\* C11: at most `size` calls hold a Client at the same time, each its own
\* Client and none of them a queued one; a caller leaves acquisition only with
\* the Client at the head of the queue, or, when the queue is empty and its
\* acquisition timeout is finite, with the error of the timeout: while all
\* Clients are checked out it stays in acquisition.
C11_AtMostSizeHoldClients ==
  /\ [](/\ Cardinality(CheckedOut) <= size
        /\ \A t, u \in CheckedOut : t # u => conn[t] # conn[u]
        /\ \A t \in CheckedOut : ~InQueue(conn[t]))
  /\ [][\A t \in Threads :
          pc[t] = "get" /\ pc'[t] # "get" =>
            IF connectors = <<>>
            THEN /\ pc'[t] = "done"
                 /\ res'[t].kind = "raise" /\ res'[t].exc = "Empty"
                 /\ op[t] = "Pool.execute" => targ[t] # None
            ELSE /\ pc'[t] = "send"
                 /\ conn'[t] = Head(connectors)
                 /\ connectors' = Tail(connectors)]_vars

\* `size` calls hold a Client each while another caller waits in acquisition
C11_Witness ==
  /\ Cardinality(CheckedOut) = size
  /\ connectors = <<>>
  /\ \E t \in Threads : pc[t] = "get" /\ op[t] = "Pool.execute" /\ targ[t] = None

\* C12: no execute, with or without an explicit timeout, accepts a reply that
\* arrives later than the max-overflow timeout: such a reply is neither
\* returned nor counted, the call raises TimeoutError.
C12_MaxOverflowIsUpperBound ==
  [][\A t \in Threads :
       ExecuteReplied(t) /\ elapsed[t] > timeout_max_overflow =>
         /\ res'[t].kind = "raise" /\ res'[t].exc = "TimeoutError"
         /\ timeout_counters' = timeout_counters]_vars

\* thread t's call on the bare Client ends in this step
CallEnds(t) == pc[t] \in {"send", "poll", "recv"} /\ pc'[t] = "done"

\* C13: an execute never goes back to sending once its request is sent, it has
\* called send exactly once when it ends, whatever its outcome, and the
\* exception the caller gets is the one raised inside execute: TimeoutError,
\* NoWorkerError, ExecutionError with the payload of the reply, or the error
\* of the wait or of the send.
C13_NoHiddenRetry ==
  [][\A t \in Threads :
       IsExecute(t) =>
         /\ pc[t] \in {"poll", "recv"} => pc'[t] \in {"poll", "recv", "done"}
         /\ CallEnds(t) =>
              /\ res'[t].sends = 1
              /\ res'[t].kind = "raise" =>
                   /\ res'[t].exc \in {"TimeoutError", "NoWorkerError",
                                       "ExecutionError", "ZMQError"}
                   /\ res'[t].exc = "ExecutionError" =>
                        res'[t].data = res'[t].payload
                   /\ pc[t] = "poll" /\ waited[t] < PollTimeoutOf(t) =>
                        res'[t].exc = "ZMQError"
                   /\ res'[t].exc = "NoWorkerError" =>
                        res'[t].payload = "No worker"]_vars

\* an execute ended with TimeoutError after its poll timeout, with one request
\* sent and still unanswered on the connector
C13_Witness ==
  \E t \in Threads :
    /\ pc[t] = "done" /\ op[t] = "Client.execute"
    /\ res[t].exc = "TimeoutError" /\ res[t].worker = 0
    /\ res[t].sends = 1
    /\ pending[Bare] = <<0>>

\* the call of thread t ended in one of REPLY_OK, REPLY_OVERFLOW,
\* REPLY_FAILURE, TIMEOUT
FourOutcomes(t) ==
  \/ res[t].kind = "return"
  \/ res[t].exc \in {"TimeoutError", "NoWorkerError", "ExecutionError"}

\* C14: when an execute on the bare Client has ended in one of the four
\* outcomes and no other call is running, the Client is IDLE again: its lock
\* is free and no request is left unanswered on its connector, so that the
\* next execute can send its request and read the reply to that request.
C14_ClientIdleAfterEveryOutcome ==
  \A t \in Threads :
    /\ pc[t] = "done" /\ op[t] = "Client.execute" /\ FourOutcomes(t)
    /\ \A u \in Threads \ {t} : pc[u] = "idle"
    => lock[Bare] = 0 /\ pending[Bare] = <<>>

C16_NormalCompletionKeepsClient ==
  [][/\ \A t \in Threads :
          pc[t] = "scope" /\ res[t].kind = "return" /\ pc'[t] # "scope" =>
            /\ connectors' = Append(connectors, conn[t])
            /\ ~closed[conn[t]]
            /\ UNCHANGED <<closed, nextId, timeout_counters, pending, lock,
                           kill_ctx, ctxOf, ctxAlive>>
     /\ \A c \in Clients :
          timeout_counters'[c] # timeout_counters[c] =>
            \E t \in Threads :
              /\ conn[t] = c /\ pc[t] \in {"recv", "scope"}
              /\ pc'[t] # pc[t]]_vars

\* in a Pool of two Clients nothing was replaced, and a caller has acquired
\* the Client that carries an overflow of worker 1 while the queued Client
\* has none
C16_Witness ==
  \E t \in Threads :
    /\ size = 2 /\ nextId = size + 1
    /\ pc[t] = "send" /\ ViaPool(t)
    /\ timeout_counters[conn[t]][1] = 1
    /\ Len(connectors) = 1 /\ timeout_counters[connectors[1]][1] = 0

\* thread t holds a Client of the Pool
Holds(t) == ViaPool(t) /\ pc[t] \in {"send", "poll", "recv", "scope"}

\* thread t waits in Pool.execute for a Client, with no timeout
Blocked(t) == pc[t] = "get" /\ op[t] = "Pool.execute" /\ targ[t] = None

C18_OverflowCheckedFirst ==
  [][/\ \A t \in Threads :
          ExecuteReplied(t) /\ elapsed[t] > timeout =>
            LET w == res'[t].worker
                old == timeout_counters[conn[t]][w] IN
            /\ ~res'[t].success /\ old + 1 > timeout_overflows =>
                 /\ res'[t].kind = "raise"
                 /\ res'[t].exc \notin {"NoWorkerError", "ExecutionError"}
                 /\ res'[t].exc = "TimeoutError"
            /\ old > timeout_overflows =>
                 /\ res'[t].kind = "raise" /\ res'[t].exc = "TimeoutError"
                 /\ timeout_counters'[conn[t]][w] > timeout_overflows
     /\ \A w \in Workers :
          /\ timeout_counters[Bare][w] > timeout_overflows
          /\ timeout_counters'[Bare][w] <= timeout_overflows
          => /\ timeout_counters'[Bare][w] = 0
             /\ \E t \in Threads :
                  /\ ExecuteReplied(t) /\ conn[t] = Bare
                  /\ res'[t].worker = w /\ elapsed[t] <= timeout]_vars

\* a late failure reply from a worker already above the tolerance raised
\* TimeoutError
C18_Witness ==
  \E t \in Threads :
    /\ pc[t] = "done" /\ op[t] = "Client.execute"
    /\ res[t].exc = "TimeoutError" /\ ~res[t].success /\ res[t].worker # 0
    /\ res[t].payload = "No worker" /\ res[t].dur = "late"
    /\ timeout_counters[Bare][res[t].worker] = timeout_overflows + 2

\* C19: a caller leaves acquisition without a Client only with the error of
\* the acquisition timeout, and that step changes nothing of the Pool, of its
\* Clients or of the other callers: no Client is closed or created, the queue
\* keeps its content, the callers that hold Clients go on as they were.
C19_AcquisitionTimeoutChangesNothing ==
  [][\A t \in Threads :
       pc[t] = "get" /\ pc'[t] \notin {"get", "send"} =>
         /\ pc'[t] = "done"
         /\ res'[t].kind = "raise" /\ res'[t].exc = "Empty"
         /\ UNCHANGED <<connectors, nextId, closed, lock, pending,
                        timeout_counters, kill_ctx, ctxOf, ctxAlive, poolClosed>>
         /\ \A u \in Threads \ {t} :
              /\ pc'[u] = pc[u] /\ op'[u] = op[u] /\ conn'[u] = conn[u]
              /\ targ'[u] = targ[u] /\ elapsed'[u] = elapsed[u]
              /\ waited'[u] = waited[u] /\ res'[u] = res[u]]_vars

\* a caller has the error of the acquisition timeout while the other caller
\* still waits for its reply on the only Client, and nothing was replaced
C19_Witness ==
  \E t, u \in Threads :
    /\ pc[t] = "done" /\ res[t].exc = "Empty"
    /\ pc[u] = "poll" /\ ViaPool(u) /\ lock[conn[u]] = u
    /\ connectors = <<>> /\ nextId = size + 1
    /\ \A c \in Clients : ~closed[c]

\* the Pool call of thread t raised TimeoutError on a reply, because the
\* worker of the reply exceeded the tolerance, and its scope ends in this step
OverflowFailureEnds(t) ==
  /\ pc[t] = "scope" /\ pc'[t] = "done" /\ op[t] = "Pool.execute"
  /\ res[t].exc = "TimeoutError" /\ res[t].worker # 0

\* a late reply from a worker with counter cnt is classified normally
AcceptsLate(cnt) == cnt + 1 <= timeout_overflows

\* C20 as stated: right after a Pool call raised TimeoutError because a worker
\* exceeded the tolerance, the next late reply from that worker is accepted,
\* whichever Client of the queue serves the next call: the overflow history
\* of that worker is lost in the Pool.
C20_NextLateReplyAccepted ==
  [][\A t \in Threads :
       OverflowFailureEnds(t) =>
         \A i \in 1..Len(connectors') :
           AcceptsLate(timeout_counters'[connectors'[i]][res[t].worker])]_vars

\* C20 amended: the Client that replaces a failed one starts with all overflow
\* counters at 0 and the failed Client is not in the queue, so the history of
\* every worker on the failed Client is lost; a late reply within max-overflow
\* that a replacement with counter 0 for its worker reads is classified
\* normally and leaves the counter at 1, and no queued Client is ever above
\* the tolerance; the other Clients of the Pool keep their own counters.
C20_ReplacementStartsAtZero ==
  /\ [](\A i \in 1..Len(connectors) : \A w \in Workers :
          timeout_counters[connectors[i]][w] <= timeout_overflows)
  /\ [][/\ \A t \in Threads :
              pc[t] = "scope" /\ res[t].kind = "raise" /\ pc'[t] = "done" =>
                LET n == connectors'[Len(connectors')] IN
                /\ n > size /\ n # conn[t] /\ ~InQueue(conn[t])
                /\ \A i \in 1..Len(connectors') : connectors'[i] # conn[t]
                /\ \A w \in Workers : timeout_counters'[n][w] = 0
                /\ \A c \in Clients \ {n, conn[t]} :
                     timeout_counters'[c] = timeout_counters[c]
        /\ \A t \in Threads :
             /\ ExecuteReplied(t) /\ ViaPool(t) /\ conn[t] > size
             /\ elapsed[t] > timeout /\ elapsed[t] <= timeout_max_overflow
             /\ timeout_counters[conn[t]][res'[t].worker] = 0
             => /\ Normal(res'[t])
                /\ timeout_counters'[conn[t]][res'[t].worker] = 1]_vars

\* after a Client was replaced, a caller got the result of a late reply that
\* the replacement read
C20_Witness ==
  \E t \in Threads :
    /\ pc[t] = "done" /\ op[t] = "Pool.execute"
    /\ res[t].kind = "return" /\ res[t].dur = "late" /\ res[t].worker # 0
    /\ conn[t] > size /\ InQueue(conn[t])
    /\ timeout_counters[conn[t]][res[t].worker] = 1
    /\ \E c \in 1..size : closed[c]

====
